---- MODULE Spec2Model ----
(***************************************************************************)
(* Model of src/src/socks/mod.rs: the SOCKS5 stream worker and datagram    *)
(* worker, their background reader threads, the shared forwarding sink     *)
(* behind a mutex, and the stream worker's teardown.                        *)
(*                                                                         *)
(* Each worker has an owner (the thread that constructs, uses and drops    *)
(* it) and one background reader thread.  owner[w] is the owner's position *)
(* and pc[w] the reader thread's position in its loop.  Atomics are        *)
(* modelled as sequentially consistent single-step loads and stores.       *)
(***************************************************************************)
EXTENDS Integers, Sequences, FiniteSets, TLC

\* ---------------------------------------------------------------- bounds
\* Successful reads delivered to one stream worker's channel.
MaxReads == 4
\* Successful receives delivered to one datagram worker's channel.
MaxRecv == 2

\* ------------------------------------------------------- program constants
ZEROES_BEFORE_CLOSE == 3

\* ------------------------------------------------------------- the universe
StreamWorkers == {"s1"}
DatagramWorkers == {"d1"}
Workers == StreamWorkers \cup DatagramWorkers

None == "none"
\* Sizes a stream read can return: 0 (empty read) or a positive length.
StreamSizes == {0, 10}
\* The port a stream worker is connected with, and a datagram worker bound with.
StreamPorts == {1}
BindPorts == {1}
\* Values of the 16-bit source port that the model distinguishes.
Ports == {1, 2}
\* Outcome of a fallible call whose error is only logged or handed on.
Results == {"ok", "err"}
\* io::ErrorKind of a failed read, as far as the loops distinguish it.
ErrKinds == {"TimedOut", "Other"}

VARIABLES
    owner,     \* owner[w]: position of the owning thread w.r.t. worker w
    pc,        \* pc[w]: position of the background reader thread
    closed,    \* closed[w]: the AtomicBool is_closed
    zero,      \* zero[w]: the stream thread's local `zero`
    res,       \* res[w]: <<"Ok", n>> or <<"Err", k>> of the current read, then
               \* <<"Fwd", r>> of the forward call; NoRes at the start
    chan,      \* chan[w]: "open", or "shut" after a successful shutdown(Both)
    lock,      \* holder of the Mutex around the sink, or None
    srcPort,   \* srcPort[w]: the AtomicU16 src_port (datagram), src_port (stream)
    fwdPort,   \* fwdPort[w]: src_port argument of the current/last forward call
    shutRes,   \* shutRes[w]: result of stream.shutdown in drop
    reads,     \* history: sizes of the successful reads of w, in order
    fwds,      \* history: payload sizes of the forward calls of w, in order
    zeroRun,   \* history: length of the current run of zero-length reads
    recvPort   \* history: srcPort[w] at the moment the last receive returned

vars == <<owner, pc, closed, zero, res, chan, lock, srcPort, fwdPort,
          shutRes, reads, fwds, zeroRun, recvPort>>

histVars == <<reads, fwds, zeroRun, recvPort>>

\* ------------------------------------------------------------ pure pieces

\* AtomicBool::new(false)
InitClosedM == TRUE
InitClosed == FALSE

\* self.is_closed.store(true, ..) in close()
StoredOnCloseM == FALSE
StoredOnClose == TRUE

\* if size == 0 { zero += 1; ... }  -- `zero` is written nowhere else
ZeroAfterRead(z, n) == IF n = 0 THEN z + 1 ELSE z

\* zero >= ZEROES_BEFORE_CLOSE
ZeroLimitReachedM(z) == z > ZEROES_BEFORE_CLOSE
ZeroLimitReached(z) == z >= ZEROES_BEFORE_CLOSE

\* e.kind() == io::ErrorKind::TimedOut
IsTimedOutM(k) == FALSE
IsTimedOutAll(k) == TRUE
IsTimedOut(k) == k = "TimedOut"

\* tx.lock(): the mutex can be taken when nobody holds it
LockFreeM == TRUE
LockFree == lock = None

\* a_src_port_cloned.load(..) evaluated as an argument of forward_udp
LoadSrcPortM(w) == recvPort[w]
LoadSrcPort(w) == srcPort[w]

\* thread.join() returns once the reader thread has finished
JoinReadyM(w) == TRUE
JoinReady(w) == pc[w] = "done"

\* Where the loop goes after `if let Err(ref e) = ..forward..(..) { warn!(..) }`:
\* to the end of the iteration, whatever the call returned.
AfterForwardM(r) == IF r = "err" THEN "done" ELSE "head"
AfterForward(r) == "head"

\* a_is_closed_cloned.load(..) at the two check points of the loop
LoadClosedM(w) == FALSE
LoadClosed(w) == closed[w]

\* &buffer[..size], the payload argument of the forward call
PayloadM(w) == res[w][2] + 1
Payload(w) == res[w][2]

\* Where drop goes after `if let Err(ref e) = self.stream.shutdown(..)
\* { warn!(..) }`: to the join, whatever shutdown returned.
AfterShutdownM(r) == IF r = "err" THEN "dropped" ELSE "drop_join"
AfterShutdown(r) == "drop_join"

\* a_is_closed_cloned.store(true, ..) before each break that ends the loop
\* on the thread's own finding
StoredOnBreakM == FALSE
StoredOnBreak == TRUE

\* The MutexGuard is a temporary of the forward statement: when the call
\* has returned, nobody holds the mutex.
ReleasedLockM(w) == w
ReleasedLock(w) == None

\* The value of the match scrutinee / call result held by thread w.
NoRes == <<"None", 0>>
IsRes(w, tag, v) == res[w][1] = tag /\ res[w][2] = v

is_closed(w) == closed[w]
get_src_port(w) == srcPort[w]

\* ------------------------------------------------------------------- Init
Init ==
    /\ owner = [w \in Workers |-> "new"]
    /\ pc = [w \in Workers |-> None]
    /\ closed = [w \in Workers |-> FALSE]
    /\ zero = [w \in Workers |-> 0]
    /\ res = [w \in Workers |-> NoRes]
    /\ chan = [w \in Workers |-> "open"]
    /\ lock = None
    /\ srcPort = [w \in Workers |-> 1]
    /\ fwdPort = [w \in Workers |-> 0]
    /\ shutRes = [w \in Workers |-> None]
    /\ reads = [w \in Workers |-> <<>>]
    /\ fwds = [w \in Workers |-> <<>>]
    /\ zeroRun = [w \in Workers |-> 0]
    /\ recvPort = [w \in Workers |-> 0]

\* ------------------------------------------------- StreamWorker: the owner

\* socks::connect or try_clone fails: connect returns Err, no worker exists.
StreamConnectFail(w) ==
    /\ w \in StreamWorkers
    /\ owner[w] = "new"
    /\ owner' = [owner EXCEPT ![w] = "failed"]
    /\ UNCHANGED <<pc, closed, zero, res, chan, lock, srcPort, fwdPort,
                   shutRes, histVars>>

\* connect up to and including thread::spawn: the flag is created and the
\* reader thread starts at the head of its loop with zero = 0.
StreamConnect(w, p) ==
    /\ w \in StreamWorkers
    /\ owner[w] = "new"
    /\ owner' = [owner EXCEPT ![w] = "spawned"]
    /\ closed' = [closed EXCEPT ![w] = InitClosed]
    /\ srcPort' = [srcPort EXCEPT ![w] = p]
    /\ zero' = [zero EXCEPT ![w] = 0]
    /\ pc' = [pc EXCEPT ![w] = "head"]
    /\ UNCHANGED <<res, chan, lock, fwdPort, shutRes, histVars>>

\* connect returns Ok(StreamWorker { .. }) to the caller.
StreamConnectReturn(w) ==
    /\ w \in StreamWorkers
    /\ owner[w] = "spawned"
    /\ owner' = [owner EXCEPT ![w] = "live"]
    /\ UNCHANGED <<pc, closed, zero, res, chan, lock, srcPort, fwdPort,
                   shutRes, histVars>>

\* send: write_all on the owner's handle; the result goes to the caller.
StreamSend(w, r) ==
    /\ w \in StreamWorkers
    /\ owner[w] = "live"
    /\ r \in Results
    /\ UNCHANGED vars

\* close(): store true into the flag.
StreamClose(w) ==
    /\ w \in StreamWorkers
    /\ owner[w] = "live"
    /\ closed' = [closed EXCEPT ![w] = StoredOnClose]
    /\ closed' # closed
    /\ UNCHANGED <<owner, pc, zero, res, chan, lock, srcPort, fwdPort,
                   shutRes, histVars>>

\* drop, first statement: self.close()
StreamDropClose(w) ==
    /\ w \in StreamWorkers
    /\ owner[w] = "live"
    /\ owner' = [owner EXCEPT ![w] = "drop_shutdown"]
    /\ closed' = [closed EXCEPT ![w] = StoredOnClose]
    /\ UNCHANGED <<pc, zero, res, chan, lock, srcPort, fwdPort, shutRes, histVars>>

\* drop, second statement: self.stream.shutdown(Shutdown::Both); an Err is
\* logged and nothing else is done about it.
StreamDropShutdown(w, r) ==
    /\ w \in StreamWorkers
    /\ owner[w] = "drop_shutdown"
    /\ owner' = [owner EXCEPT ![w] = AfterShutdown(r)]
    /\ shutRes' = [shutRes EXCEPT ![w] = r]
    /\ chan' = [chan EXCEPT ![w] = IF r = "ok" THEN "shut" ELSE @]
    /\ UNCHANGED <<pc, closed, zero, res, lock, srcPort, fwdPort,
                   histVars>>

\* drop, third statement: thread.join().unwrap(), then drop returns.
StreamDropJoin(w) ==
    /\ w \in StreamWorkers
    /\ owner[w] = "drop_join"
    /\ JoinReady(w)
    /\ owner' = [owner EXCEPT ![w] = "dropped"]
    /\ UNCHANGED <<pc, closed, zero, res, chan, lock, srcPort, fwdPort,
                   shutRes, histVars>>

\* ------------------------------------------ StreamWorker: the reader thread

\* loop head: if is_closed { break }, else call read.
StreamHead(w) ==
    /\ w \in StreamWorkers
    /\ pc[w] = "head"
    /\ pc' = [pc EXCEPT ![w] = IF LoadClosed(w) THEN "done" ELSE "read"]
    /\ res' = [res EXCEPT ![w] = NoRes]
    /\ UNCHANGED <<owner, closed, zero, chan, lock, srcPort, fwdPort,
                   shutRes, histVars>>

\* stream_cloned.read returns Ok(n).  A shut-down channel yields only 0.
StreamReadOk(w, n) ==
    /\ w \in StreamWorkers
    /\ pc[w] = "read"
    /\ Len(reads[w]) < MaxReads
    /\ chan[w] = "open" \/ n = 0
    /\ pc' = [pc EXCEPT ![w] = "ok"]
    /\ res' = [res EXCEPT ![w] = <<"Ok", n>>]
    /\ reads' = [reads EXCEPT ![w] = Append(@, n)]
    /\ zeroRun' = [zeroRun EXCEPT ![w] = IF n = 0 THEN @ + 1 ELSE 0]
    /\ UNCHANGED <<owner, closed, zero, chan, lock, srcPort, fwdPort,
                   shutRes, fwds, recvPort>>

\* stream_cloned.read returns Err(e).  A shut-down channel does not time out.
StreamReadErr(w, k) ==
    /\ w \in StreamWorkers
    /\ pc[w] = "read"
    /\ chan[w] = "open" \/ k # "TimedOut"
    /\ pc' = [pc EXCEPT ![w] = "err"]
    /\ res' = [res EXCEPT ![w] = <<"Err", k>>]
    /\ UNCHANGED <<owner, closed, zero, chan, lock, srcPort, fwdPort,
                   shutRes, histVars>>

\* The Ok(size) arm up to the forward call: the second closed check, the
\* zero counter and its threshold.  Everything that does not break falls
\* through to the forward call.
StreamOkArm(w) ==
    /\ w \in StreamWorkers
    /\ pc[w] = "ok"
    /\ LET n == res[w][2]
           z == ZeroAfterRead(zero[w], n)
       IN  IF LoadClosed(w)
           THEN /\ pc' = [pc EXCEPT ![w] = "done"]
                /\ UNCHANGED <<closed, zero>>
           ELSE /\ zero' = [zero EXCEPT ![w] = z]
                /\ IF n = 0 /\ ZeroLimitReached(z)
                   THEN /\ closed' = [closed EXCEPT ![w] = StoredOnBreak]
                        /\ pc' = [pc EXCEPT ![w] = "done"]
                   ELSE /\ pc' = [pc EXCEPT ![w] = "lock"]
                        /\ UNCHANGED closed
    /\ UNCHANGED <<owner, res, chan, lock, srcPort, fwdPort, shutRes, histVars>>

\* tx.lock().unwrap().forward_tcp(dst, src_port, &buffer[..size]) is entered.
StreamForwardCall(w) ==
    /\ w \in StreamWorkers
    /\ pc[w] = "lock"
    /\ LockFree
    /\ lock' = w
    /\ pc' = [pc EXCEPT ![w] = "fwd"]
    /\ fwdPort' = [fwdPort EXCEPT ![w] = srcPort[w]]
    /\ fwds' = [fwds EXCEPT ![w] = Append(@, Payload(w))]
    /\ UNCHANGED <<owner, closed, zero, res, chan, srcPort, shutRes, reads, zeroRun, recvPort>>

\* forward_tcp returns r; the guard is released; an Err is only logged.
StreamForwardReturn(w, r) ==
    /\ w \in StreamWorkers
    /\ pc[w] = "fwd"
    /\ lock' = ReleasedLock(w)
    /\ pc' = [pc EXCEPT ![w] = AfterForward(r)]
    /\ res' = [res EXCEPT ![w] = <<"Fwd", r>>]
    /\ fwdPort' = [fwdPort EXCEPT ![w] = 0]
    /\ recvPort' = [recvPort EXCEPT ![w] = 0]
    /\ UNCHANGED <<owner, closed, zero, chan, srcPort, shutRes,
                   reads, fwds, zeroRun>>

\* The Err(e) arm: TimedOut sleeps and continues, anything else closes.
StreamErrArm(w) ==
    /\ w \in StreamWorkers
    /\ pc[w] = "err"
    /\ IF IsTimedOut(res[w][2])
       THEN /\ pc' = [pc EXCEPT ![w] = "sleep"]
            /\ UNCHANGED closed
       ELSE /\ closed' = [closed EXCEPT ![w] = StoredOnBreak]
            /\ pc' = [pc EXCEPT ![w] = "done"]
    /\ UNCHANGED <<owner, zero, res, chan, lock, srcPort, fwdPort, shutRes, histVars>>

\* thread::sleep(TIMEDOUT_WAIT) is over; continue.
StreamSleep(w) ==
    /\ w \in StreamWorkers
    /\ pc[w] = "sleep"
    /\ pc' = [pc EXCEPT ![w] = "head"]
    /\ UNCHANGED <<owner, closed, zero, res, chan, lock, srcPort, fwdPort,
                   shutRes, histVars>>

\* --------------------------------------------------- DatagramWorker: owner

DatagramBindFail(w) ==
    /\ w \in DatagramWorkers
    /\ owner[w] = "new"
    /\ owner' = [owner EXCEPT ![w] = "failed"]
    /\ UNCHANGED <<pc, closed, zero, res, chan, lock, srcPort, fwdPort,
                   shutRes, histVars>>

DatagramBind(w, p) ==
    /\ w \in DatagramWorkers
    /\ owner[w] = "new"
    /\ owner' = [owner EXCEPT ![w] = "spawned"]
    /\ closed' = [closed EXCEPT ![w] = InitClosed]
    /\ srcPort' = [srcPort EXCEPT ![w] = p]
    /\ pc' = [pc EXCEPT ![w] = "head"]
    /\ UNCHANGED <<zero, res, chan, lock, fwdPort, shutRes,
                   histVars>>

DatagramBindReturn(w) ==
    /\ w \in DatagramWorkers
    /\ owner[w] = "spawned"
    /\ owner' = [owner EXCEPT ![w] = "live"]
    /\ UNCHANGED <<pc, closed, zero, res, chan, lock, srcPort, fwdPort,
                   shutRes, histVars>>

DatagramSendTo(w, r) ==
    /\ w \in DatagramWorkers
    /\ owner[w] = "live"
    /\ r \in Results
    /\ UNCHANGED vars

\* set_src_port: store into the AtomicU16.
DatagramSetSrcPort(w, p) ==
    /\ w \in DatagramWorkers
    /\ owner[w] = "live"
    /\ p # srcPort[w]
    /\ srcPort' = [srcPort EXCEPT ![w] = p]
    /\ UNCHANGED <<owner, pc, closed, zero, res, chan, lock, fwdPort,
                   shutRes, histVars>>

\* DatagramWorker has no Drop impl: dropping it releases the owner's Arc
\* handles and detaches the JoinHandle; the reader thread is left alone.
DatagramDrop(w) ==
    /\ w \in DatagramWorkers
    /\ owner[w] = "live"
    /\ owner' = [owner EXCEPT ![w] = "dropped"]
    /\ UNCHANGED <<pc, closed, zero, res, chan, lock, srcPort, fwdPort,
                   shutRes, histVars>>

\* Everything the owner of a live datagram worker can call on it.
DatagramOwnerStep(w) ==
    \/ \E r \in Results : DatagramSendTo(w, r)
    \/ \E p \in Ports : DatagramSetSrcPort(w, p)
    \/ DatagramDrop(w)

\* ---------------------------------------- DatagramWorker: the reader thread

DatagramHead(w) ==
    /\ w \in DatagramWorkers
    /\ pc[w] = "head"
    /\ pc' = [pc EXCEPT ![w] = IF LoadClosed(w) THEN "done" ELSE "read"]
    /\ res' = [res EXCEPT ![w] = NoRes]
    /\ UNCHANGED <<owner, closed, zero, chan, lock, srcPort, fwdPort,
                   shutRes, histVars>>

\* recv_from returns Ok((n, addr)).  The k-th datagram of a channel is given
\* the payload k, so that payloads identify datagrams.
DatagramRecvOk(w) ==
    /\ w \in DatagramWorkers
    /\ pc[w] = "read"
    /\ Len(reads[w]) < MaxRecv
    /\ pc' = [pc EXCEPT ![w] = "ok"]
    /\ res' = [res EXCEPT ![w] = <<"Ok", Len(reads[w]) + 1>>]
    /\ reads' = [reads EXCEPT ![w] = Append(@, Len(@) + 1)]
    /\ recvPort' = [recvPort EXCEPT ![w] = srcPort[w]]
    /\ UNCHANGED <<owner, closed, zero, chan, lock, srcPort, fwdPort,
                   shutRes, fwds, zeroRun>>

\* recv_from returns Err(e).
DatagramRecvErr(w, k) ==
    /\ w \in DatagramWorkers
    /\ pc[w] = "read"
    /\ pc' = [pc EXCEPT ![w] = "err"]
    /\ res' = [res EXCEPT ![w] = <<"Err", k>>]
    /\ UNCHANGED <<owner, closed, zero, chan, lock, srcPort, fwdPort,
                   shutRes, histVars>>

\* The Ok arm up to the forward call: only the second closed check.
DatagramOkArm(w) ==
    /\ w \in DatagramWorkers
    /\ pc[w] = "ok"
    /\ pc' = [pc EXCEPT ![w] = IF LoadClosed(w) THEN "done" ELSE "lock"]
    /\ recvPort' = [recvPort EXCEPT ![w] = IF LoadClosed(w) THEN 0 ELSE @]
    /\ UNCHANGED <<owner, closed, zero, res, chan, lock, srcPort, fwdPort,
                   shutRes, reads, fwds, zeroRun>>

\* tx.lock().unwrap().forward_udp(addr, src_port.load(), &buffer[..size]):
\* the guard is taken first, then the arguments are evaluated.
DatagramForwardCall(w) ==
    /\ w \in DatagramWorkers
    /\ pc[w] = "lock"
    /\ LockFree
    /\ lock' = w
    /\ pc' = [pc EXCEPT ![w] = "fwd"]
    /\ fwdPort' = [fwdPort EXCEPT ![w] = LoadSrcPort(w)]
    /\ fwds' = [fwds EXCEPT ![w] = Append(@, Payload(w))]
    /\ UNCHANGED <<owner, closed, zero, res, chan, srcPort, shutRes, reads, zeroRun, recvPort>>

DatagramForwardReturn(w, r) ==
    /\ w \in DatagramWorkers
    /\ pc[w] = "fwd"
    /\ lock' = ReleasedLock(w)
    /\ pc' = [pc EXCEPT ![w] = AfterForward(r)]
    /\ res' = [res EXCEPT ![w] = <<"Fwd", r>>]
    /\ fwdPort' = [fwdPort EXCEPT ![w] = 0]
    /\ recvPort' = [recvPort EXCEPT ![w] = 0]
    /\ UNCHANGED <<owner, closed, zero, chan, srcPort, shutRes,
                   reads, fwds, zeroRun>>

DatagramErrArm(w) ==
    /\ w \in DatagramWorkers
    /\ pc[w] = "err"
    /\ IF IsTimedOut(res[w][2])
       THEN /\ pc' = [pc EXCEPT ![w] = "sleep"]
            /\ UNCHANGED closed
       ELSE /\ closed' = [closed EXCEPT ![w] = StoredOnBreak]
            /\ pc' = [pc EXCEPT ![w] = "done"]
    /\ UNCHANGED <<owner, zero, res, chan, lock, srcPort, fwdPort, shutRes, histVars>>

DatagramSleep(w) ==
    /\ w \in DatagramWorkers
    /\ pc[w] = "sleep"
    /\ pc' = [pc EXCEPT ![w] = "head"]
    /\ UNCHANGED <<owner, closed, zero, res, chan, lock, srcPort, fwdPort,
                   shutRes, histVars>>

\* ------------------------------------------------------------ specification

Next ==
    \/ \E w \in Workers : StreamConnectFail(w)
    \/ \E w \in Workers, p \in StreamPorts : StreamConnect(w, p)
    \/ \E w \in Workers : StreamConnectReturn(w)
    \/ \E w \in Workers, r \in Results : StreamSend(w, r)
    \/ \E w \in Workers : StreamClose(w)
    \/ \E w \in Workers : StreamDropClose(w)
    \/ \E w \in Workers, r \in Results : StreamDropShutdown(w, r)
    \/ \E w \in Workers : StreamDropJoin(w)
    \/ \E w \in Workers : StreamHead(w)
    \/ \E w \in Workers, n \in StreamSizes : StreamReadOk(w, n)
    \/ \E w \in Workers, k \in ErrKinds : StreamReadErr(w, k)
    \/ \E w \in Workers : StreamOkArm(w)
    \/ \E w \in Workers : StreamForwardCall(w)
    \/ \E w \in Workers, r \in Results : StreamForwardReturn(w, r)
    \/ \E w \in Workers : StreamErrArm(w)
    \/ \E w \in Workers : StreamSleep(w)
    \/ \E w \in Workers : DatagramBindFail(w)
    \/ \E w \in Workers, p \in BindPorts : DatagramBind(w, p)
    \/ \E w \in Workers : DatagramBindReturn(w)
    \/ \E w \in Workers, r \in Results : DatagramSendTo(w, r)
    \/ \E w \in Workers, p \in Ports : DatagramSetSrcPort(w, p)
    \/ \E w \in Workers : DatagramDrop(w)
    \/ \E w \in Workers : DatagramHead(w)
    \/ \E w \in Workers : DatagramRecvOk(w)
    \/ \E w \in Workers, k \in ErrKinds : DatagramRecvErr(w, k)
    \/ \E w \in Workers : DatagramOkArm(w)
    \/ \E w \in Workers : DatagramForwardCall(w)
    \/ \E w \in Workers, r \in Results : DatagramForwardReturn(w, r)
    \/ \E w \in Workers : DatagramErrArm(w)
    \/ \E w \in Workers : DatagramSleep(w)

Spec == Init /\ [][Next]_vars

TypeOK ==
    /\ owner \in [Workers -> {"new", "failed", "spawned", "live",
                              "drop_shutdown", "drop_join", "dropped"}]
    /\ pc \in [Workers -> {None, "head", "read", "ok", "err", "lock", "fwd",
                           "sleep", "done"}]
    /\ closed \in [Workers -> BOOLEAN]
    /\ \A w \in Workers : zero[w] \in 0..ZEROES_BEFORE_CLOSE
    /\ chan \in [Workers -> {"open", "shut"}]
    /\ lock \in Workers \cup {None}
    /\ srcPort \in [Workers -> Ports]

\* ------------------------------------------------------------------ fairness
\* The host schedules every thread: a reader thread that can take a step of
\* its own eventually takes it, a forward call returns, and a drop that is
\* under way proceeds.  A read on a channel that was shut down returns.
\* Nothing obliges the peer to send, a read on an open channel to time out,
\* or the owner to call anything.

ThreadStep(w) ==
    \/ StreamHead(w) \/ StreamOkArm(w) \/ StreamErrArm(w) \/ StreamSleep(w)
    \/ StreamForwardCall(w) \/ \E r \in Results : StreamForwardReturn(w, r)
    \/ DatagramHead(w) \/ DatagramOkArm(w) \/ DatagramErrArm(w)
    \/ DatagramSleep(w)
    \/ DatagramForwardCall(w) \/ \E r \in Results : DatagramForwardReturn(w, r)

ShutRead(w) ==
    /\ chan[w] = "shut"
    /\ StreamReadOk(w, 0) \/ StreamReadErr(w, "Other")

DropStep(w) ==
    \/ \E r \in Results : StreamDropShutdown(w, r)
    \/ StreamDropJoin(w)

FairSpec ==
    /\ Spec
    /\ \A w \in Workers :
          WF_vars(ThreadStep(w)) /\ WF_vars(ShutRead(w)) /\ WF_vars(DropStep(w))

\* -------------------------------------------------------------------- claims

\* C1: a positive-length read resets the zero counter, so the reader thread
\* closes the worker on the zero threshold only when the zero-length reads
\* that led to it came in a row: the step of the Ok arm that stores closed
\* and breaks is taken only after ZEROES_BEFORE_CLOSE consecutive
\* zero-length reads.
C1_ZeroesCountInARow ==
    [][\A w \in StreamWorkers :
          (pc[w] = "ok" /\ pc'[w] = "done" /\ ~closed[w] /\ closed'[w])
             => zeroRun[w] >= ZEROES_BEFORE_CLOSE]_vars

\* C2: once three zero-length reads have been returned in a row, the reader
\* thread does nothing but its post-read processing of the third one and then
\* is out of the loop with closed set; it never forwards, sleeps or reads
\* again, and no read error is involved.
C2_ThirdZeroCloses ==
    \A w \in StreamWorkers :
        zeroRun[w] >= ZEROES_BEFORE_CLOSE =>
            /\ zeroRun[w] = ZEROES_BEFORE_CLOSE
            /\ pc[w] \in {"ok", "done"}
            /\ pc[w] = "done" => closed[w]
            /\ IsRes(w, "Ok", 0)

C2_Witness ==
    \E w \in StreamWorkers :
        /\ reads[w] = <<0, 0, 0>>
        /\ zero[w] = ZEROES_BEFORE_CLOSE
        /\ pc[w] = "done"
        /\ closed[w]
        /\ owner[w] = "live"

\* C3: when the channel delivers one read of 10 bytes and then only
\* zero-length reads, the worker makes at most one forward_tcp call, and that
\* call carries the 10 bytes.
C3_OneForwardOfTen ==
    \A w \in StreamWorkers :
        ( /\ Len(reads[w]) >= 1
          /\ reads[w][1] = 10
          /\ \A i \in 2..Len(reads[w]) : reads[w][i] = 0 )
        => /\ Len(fwds[w]) <= 1
           /\ \A i \in 1..Len(fwds[w]) : fwds[w][i] = 10

\* C4: after drop of a stream worker has returned, its reader thread is out
\* of the loop: it is not reading, not waiting for the sink, not inside a
\* forward call and does not hold the sink lock.
C4_NoThreadAfterDrop ==
    \A w \in StreamWorkers :
        owner[w] = "dropped" => pc[w] = "done" /\ lock # w

C4_Witness ==
    \E w \in StreamWorkers :
        /\ owner[w] = "dropped"
        /\ shutRes[w] = "ok"
        /\ Len(fwds[w]) >= 1
        /\ IsRes(w, "Err", "Other")

\* C5: drop of a stream worker always terminates: once drop has stored
\* closed, it eventually returns.
C5_DropReturns ==
    \A w \in StreamWorkers :
        (owner[w] = "drop_shutdown") ~> (owner[w] = "dropped")

\* What does hold: a drop whose shutdown succeeded returns.
DropReturnsAfterShutdownOk ==
    \A w \in StreamWorkers :
        (owner[w] = "drop_join" /\ shutRes[w] = "ok") ~> (owner[w] = "dropped")

\* C6: for both kinds, a timed-out read neither stores closed nor leaves the
\* loop nor touches the zero counter: the Err arm goes to the sleep, the sleep
\* goes to the loop head, and the loop head reads again unless closed is set.
C6_TimedOutRetries ==
    [][\A w \in Workers :
          /\ (pc[w] = "read" /\ pc'[w] = "err")
                => closed'[w] = closed[w] /\ zero'[w] = zero[w]
          /\ (pc[w] = "err" /\ IsRes(w, "Err", "TimedOut") /\ pc'[w] # "err")
                => pc'[w] = "sleep" /\ closed'[w] = closed[w]
                   /\ zero'[w] = zero[w]
          /\ (pc[w] = "sleep" /\ pc'[w] # "sleep")
                => pc'[w] = "head" /\ closed'[w] = closed[w]
                   /\ zero'[w] = zero[w]
          /\ (pc[w] = "head" /\ pc'[w] # "head" /\ ~closed[w])
                => pc'[w] = "read"]_vars

C6_Witness ==
    \A w \in Workers :
        pc[w] = "head" /\ IsRes(w, "Err", "TimedOut") /\ ~closed[w]

\* C7 as claimed: a forward_udp call carries the source port that was current
\* when its datagram was received.
C7_PortAtReceive ==
    \A w \in DatagramWorkers : pc[w] = "fwd" => fwdPort[w] = recvPort[w]

\* C7 as amended: a forward_udp call carries the source port that is current
\* when the call is made, after the sink lock has been taken; a set_src_port
\* during the call does not change what the call carries.
C7_PortAtForward ==
    [][\A w \in DatagramWorkers :
          /\ (pc[w] = "lock" /\ pc'[w] = "fwd") => fwdPort'[w] = srcPort[w]
          /\ (pc[w] = "fwd" /\ pc'[w] = "fwd") => fwdPort'[w] = fwdPort[w]]_vars

C7_Witness ==
    \E w \in DatagramWorkers :
        /\ pc[w] = "fwd"
        /\ fwdPort[w] # recvPort[w]
        /\ fwdPort[w] # srcPort[w]

\* C8: at most one reader thread, over all workers, is inside a forward call,
\* and it is the one that holds the sink lock.
C8_ForwardMutex ==
    /\ Cardinality({w \in Workers : pc[w] = "fwd"}) <= 1
    /\ \A w \in Workers : pc[w] = "fwd" <=> lock = w

C8_Witness ==
    \E v, w \in Workers : v # w /\ pc[v] = "fwd" /\ pc[w] = "lock"

\* C9: for both kinds, closed never goes from true to false.
C9_ClosedMonotonic ==
    [][\A w \in Workers : closed[w] => closed'[w]]_vars

C9_Witness ==
    /\ \A w \in StreamWorkers :
          closed[w] /\ owner[w] = "dropped" /\ IsRes(w, "Err", "Other")
    /\ \A w \in DatagramWorkers : closed[w] /\ owner[w] = "live"

\* C10 as claimed: is_closed() is false at the step in which connect/bind
\* returns the worker.
C10_OpenAtReturn ==
    [][\A w \in Workers :
          (owner[w] = "spawned" /\ owner'[w] = "live") => ~is_closed(w)]_vars

\* C10 as amended: from the spawn of the reader thread until connect/bind
\* returns, is_closed() is true exactly if the reader thread has already left
\* its loop; so it is false at the return unless the thread has ended.
C10_OpenUnlessThreadEnded ==
    \A w \in Workers :
        owner[w] = "spawned" => (is_closed(w) <=> pc[w] = "done")

C10_Witness ==
    /\ \E w \in StreamWorkers : owner[w] = "spawned" /\ is_closed(w)
    /\ \E w \in DatagramWorkers : owner[w] = "spawned" /\ is_closed(w)

\* C11: the owner of a datagram worker can close it: whenever the worker is
\* live with closed false, some call of the owner stores closed = true
\* while the reader thread stays where it is.
C11_OwnerCanClose ==
    \A w \in DatagramWorkers :
        (owner[w] = "live" /\ ~closed[w])
            => ENABLED (DatagramOwnerStep(w) /\ closed'[w] /\ pc'[w] = pc[w])

\* C12: after the drop of a datagram worker has returned, its reader thread
\* is out of the loop: it neither receives nor forwards any more.
C12_NoThreadAfterDatagramDrop ==
    \A w \in DatagramWorkers :
        owner[w] = "dropped" => pc[w] = "done" /\ lock # w

\* C13: every forward_tcp call of a stream worker carries a non-empty
\* payload; a zero-length read is never forwarded.
C13_ForwardsNonEmpty ==
    \A w \in StreamWorkers :
        \A i \in 1..Len(fwds[w]) : fwds[w][i] > 0

\* C14: for both kinds, the return of a forward call, with an error as with
\* success, leaves closed and the zero counter as they are, releases the
\* sink and takes the thread to the loop head; after an error the loop head
\* goes on exactly as always: it reads again unless closed is set.
C14_ForwardErrorNotFatal ==
    [][\A w \in Workers :
          /\ (pc[w] = "fwd" /\ pc'[w] # "fwd")
                => /\ pc'[w] = "head"
                   /\ closed'[w] = closed[w]
                   /\ zero'[w] = zero[w]
                   /\ lock' = None
          /\ (pc[w] = "head" /\ IsRes(w, "Fwd", "err") /\ pc'[w] # "head")
                => pc'[w] = IF closed[w] THEN "done" ELSE "read"]_vars

C14_Witness ==
    \A w \in Workers :
        pc[w] = "head" /\ IsRes(w, "Fwd", "err") /\ ~closed[w]

\* C15: for both kinds, a read error of a kind other than timed-out stores
\* closed and ends the loop in the same iteration, and a thread that has
\* left its loop stays out: it reads nothing and forwards nothing any more.
C15_OtherErrorIsTerminal ==
    [][\A w \in Workers :
          /\ (pc[w] = "err" /\ ~IsRes(w, "Err", "TimedOut") /\ pc'[w] # "err")
                => closed'[w] /\ pc'[w] = "done"
          /\ pc[w] = "done"
                => /\ pc'[w] = "done"
                   /\ reads'[w] = reads[w]
                   /\ fwds'[w] = fwds[w]]_vars

C15_Witness ==
    \A w \in Workers :
        /\ pc[w] = "done"
        /\ IsRes(w, "Err", "Other")
        /\ owner[w] = "live"
        /\ Len(fwds[w]) >= 1

\* How many steps of its own a reader thread at position p can still take
\* at most once closed is set.
ClosedRank(p) ==
    CASE p = "read" -> 5
      [] p = "lock" -> 5
      [] p = "err" -> 4
      [] p = "fwd" -> 3
      [] p = "sleep" -> 3
      [] p = "head" -> 2
      [] p = "ok" -> 1
      [] OTHER -> 0

\* C16: close() on a stream worker takes effect at the next check point.
\* Once closed is set, the loop head and the check after a read only lead out
\* of the loop, so a read that completes is not forwarded; the thread passes
\* no check again: the only read still running and the only forward call
\* still made are those whose check had passed before; and every step brings
\* the thread closer to the exit.
C16_CloseAtNextCheckPoint ==
    [][\A w \in StreamWorkers :
          closed[w] =>
             /\ pc[w] = "head" => pc'[w] \in {"head", "done"}
             /\ pc[w] = "ok" => pc'[w] \in {"ok", "done"}
             /\ pc'[w] = "read" => pc[w] = "read"
             /\ pc'[w] = "lock" => pc[w] = "lock"
             /\ fwds'[w] # fwds[w] => pc[w] = "lock"
             /\ pc'[w] # pc[w] => ClosedRank(pc'[w]) < ClosedRank(pc[w])]_vars

C16_Witness ==
    \E w \in StreamWorkers :
        /\ owner[w] = "live"
        /\ closed[w]
        /\ pc[w] = "lock"
        /\ reads[w] = <<10>>

\* a is b with some elements left out, order kept.
RECURSIVE IsSubseq(_, _)
IsSubseq(a, b) ==
    IF a = <<>> THEN TRUE
    ELSE IF b = <<>> THEN FALSE
    ELSE IF Head(a) = Head(b) THEN IsSubseq(Tail(a), Tail(b))
    ELSE IsSubseq(a, Tail(b))

\* C17: within one worker, the payloads of its forward calls, in the order
\* of the calls, are a subsequence of its successful reads in the order they
\* were read: nothing is forwarded twice or out of order.
C17_ForwardsInReadOrder ==
    \A w \in Workers : IsSubseq(fwds[w], reads[w])

C17_Witness ==
    /\ \E w \in StreamWorkers :
          Len(fwds[w]) >= 2 /\ Len(reads[w]) > Len(fwds[w])
    /\ \E w \in DatagramWorkers : fwds[w] = <<1, 2>>

\* C18: the teardown of a stream worker stores closed, then shuts the
\* stream down, then joins, in this order; after a shutdown that failed as
\* after one that succeeded the next step is the join, and drop returns only
\* from the join, with the reader thread out of its loop.
C18_TeardownOrder ==
    [][\A w \in StreamWorkers :
          /\ (owner[w] = "live" /\ owner'[w] # "live")
                => owner'[w] = "drop_shutdown" /\ closed'[w]
                   /\ shutRes'[w] = None /\ chan'[w] = "open"
          /\ (owner[w] = "drop_shutdown" /\ owner'[w] # "drop_shutdown")
                => owner'[w] = "drop_join" /\ closed[w]
                   /\ shutRes'[w] \in Results
          /\ (owner[w] = "drop_join" /\ owner'[w] # "drop_join")
                => owner'[w] = "dropped" /\ pc[w] = "done"
          /\ owner'[w] = "dropped"
                => owner[w] \in {"drop_join", "dropped"} /\ pc'[w] = "done"]_vars

C18_Witness ==
    \E w \in StreamWorkers :
        /\ owner[w] = "dropped"
        /\ shutRes[w] = "err"
        /\ Len(reads[w]) >= 1

\* C19: for both kinds, a reader thread that has left its loop has closed
\* set: while is_closed() is false the thread is still in its loop.
C19_DoneImpliesClosed ==
    \A w \in Workers : pc[w] = "done" => is_closed(w)

C19_Witness ==
    /\ \E w \in StreamWorkers :
          pc[w] = "done" /\ owner[w] = "live" /\ zero[w] = ZEROES_BEFORE_CLOSE
    /\ \E w \in DatagramWorkers :
          pc[w] = "done" /\ owner[w] = "dropped" /\ IsRes(w, "Err", "Other")

\* C20: a reader thread holds the sink lock only while it is inside a
\* forward call, never while it reads, sleeps or is out of its loop; so a
\* thread that waits for the sink can enter its forward call whenever no other
\* thread is inside a forward call, whatever else the others are doing.
C20_LockOnlyDuringForward ==
    \A w \in Workers :
        /\ pc[w] # "fwd" => lock # w
        /\ (pc[w] = "lock" /\ \A v \in Workers \ {w} : pc[v] # "fwd")
              => ENABLED (StreamForwardCall(w) \/ DatagramForwardCall(w))

C20_Witness ==
    \E v, w \in Workers :
        /\ v # w
        /\ pc[v] = "read" /\ Len(fwds[v]) >= 1
        /\ pc[w] = "lock"
        /\ lock = None
====
